---- MODULE Spec2Model ----
(***************************************************************************)
(* A model of dev_nb/001b_fit.ipynb: the batch step loss_batch, the epoch  *)
(* loop fit, the Learner facade, the data wrappers DatasetTfm,             *)
(* DeviceDataLoader and DataBunch, and the network builders conv2d,        *)
(* conv2d_relu, PoolFlatten and simple_cnn.                                *)
(*                                                                         *)
(* The external framework is modelled by its effects: a parameter update   *)
(* is the list of batch gradients it applied, a gradient buffer is the     *)
(* list of batches whose gradient it has accumulated, a tensor is its      *)
(* data, its shape and the device it is on.                                *)
(***************************************************************************)
EXTENDS Integers, Sequences, FiniteSets, TLC

\* ------------------------------------------------------------------ bounds
MaxBatches == 2     \* batches in a loader
MaxEpochs  == 2     \* the epochs argument of one Learner.fit call
MaxCalls   == 2     \* successive Learner.fit calls
MaxItems   == 3     \* items in a dataset
MaxBs      == 2     \* the bs argument of a loader

None == "None"

VARIABLES
  \* ---- Learner / fit / loss_batch
  train_dl,   \* self.data.train_dl: the batches one pass yields, in order
  valid_dl,   \* self.data.valid_dl
  targets,    \* the yb of each batch of the two loaders: targets[set][i]
  calls,      \* Learner.fit calls made so far
  pc,         \* position in Learner.fit / fit / loss_batch ("idle": no call running)
  result,     \* how the last call ended: "none" | "returned" | "raised"
  epochs,     \* fit's epochs argument
  epoch,      \* fit's loop variable
  it,         \* the batches left in the loader pass being iterated
  cur,        \* xb,yb: the batch loss_batch is working on
  arg_opt,    \* loss_batch's opt argument: "opt" (fit's optimizer) or None
  mode,       \* model.train() / model.eval()
  no_grad,    \* inside `with torch.no_grad()`
  params,     \* self.model's parameters: the gradients applied to them, in order
  grad,       \* the parameters' .grad: the batches accumulated since the last zero_grad
  opt,        \* the optimizer Learner.fit built: [id, lr, fn, steps]
  losses,     \* the list the validation comprehension is building
  printed,    \* the epochs whose line the running call has printed
  val_loss,   \* fit's val_loss, a fraction [num, den]
  shown,      \* the val_loss of each line the running call has printed
  log,        \* the framework calls the running call has made, in order
  \* ---- DatasetTfm
  valid_ds,   \* the wrapped dataset: its items, (x, y) tuples
  tfm,        \* DatasetTfm.tfm
  ret,        \* what the last call on the DatasetTfm returned: [op, idx, val]
  \* ---- DeviceDataLoader
  cuda,       \* torch.cuda.is_available()
  ddl,        \* a DeviceDataLoader: [dl, device]
  gen,        \* ddl.gen: the pass of ddl.dl being mapped, [src, pos]
  out,        \* the batches the pass has yielded so far
  iters,      \* calls of ddl.__iter__ so far
  length,     \* what len(ddl) returned (-1: not called)
  \* ---- DataBunch / Learner.__init__
  datasets,   \* [train_ds, valid_ds]
  data,       \* the DataBunch: [train_dl, valid_dl, device]
  learner,    \* the Learner: [model]
  xb,         \* the last batch taken from one of data's loaders: [dl, val]
  \* ---- the networks
  actns,      \* simple_cnn's arguments
  kernel_szs,
  strides,
  model,      \* the notebook's `model`: the network the last cell built
  cell,       \* which cell built it
  acts        \* the shapes after each layer, for the last batch fed to `model`

fitvars == <<train_dl, valid_dl, targets, calls, pc, result, epochs, epoch, it, cur,
             arg_opt, mode, no_grad, params, grad, opt, losses, printed,
             val_loss, shown, log>>

tfmvars == <<valid_ds, tfm, ret>>

ldrvars == <<cuda, ddl, gen, out, iters, length>>

bunchvars == <<datasets, data, learner, xb>>

netvars == <<actns, kernel_szs, strides, model, cell, acts>>

vars == <<fitvars, tfmvars, ldrvars, bunchvars, netvars>>

\* the variables an action of one part leaves alone
notfit == <<tfmvars, ldrvars, bunchvars, netvars>>
nottfm == <<fitvars, ldrvars, bunchvars, netvars>>
notldr == <<fitvars, tfmvars, bunchvars, netvars>>
notbunch == <<fitvars, tfmvars, gen, out, iters, length, ddl, netvars>>
notnet == <<fitvars, tfmvars, ldrvars, bunchvars>>

\* ------------------------------------------------------------------ helpers
Range(s) == {s[i] : i \in 1..Len(s)}

\* A tensor is its shape, its elements in row-major order and its device; a tuple
\* or a list is its items.
Tensor(shape, elems, dev) == [kind |-> "tensor", shape |-> shape, data |-> elems, dev |-> dev]
TupleOf(items) == [kind |-> "tuple", items |-> items]
ListOf(items)  == [kind |-> "list", items |-> items]

\* def is_listy(x): return isinstance(x, (tuple,list))
is_listy(x) == x.kind \in {"tuple", "list"}

\* the targets of k samples, one tensor
Labels(k) == Tensor(<<k>>, [j \in 1..k |-> 0], "cpu")

\* a loader of n batches over dataset `set`: batch i of a pass is [set, i]
Loader(set, n) == [i \in 1..n |-> [set |-> set, i |-> i]]

NoBatch == [set |-> None, i |-> 0]

\* the yb of batch b
YbOf(b) == targets[b.set][b.i]

Lrs == {1, 5}                       \* lr/5 and lr, in fifths of lr
OptFns == {"SGD", "SGD_momentum"}   \* optim.SGD, partial(optim.SGD, momentum=0.9)

\* a local that is not bound yet
NoValue == [num |-> 0, den |-> 0]

NoOpt == [id |-> 0, lr |-> 0, fn |-> None, steps |-> 0]

\* faulty variant: the optimizer of the previous call is kept, with its state
ReusedOpt(id, lr, fn) == [opt EXCEPT !.id = id, !.lr = lr, !.fn = fn]

\* opt = opt_fn(self.model.parameters(), lr=lr): a new optimizer, with no state
NewOpt(id, lr, fn) == [id |-> id, lr |-> lr, fn |-> fn, steps |-> 0]

\* faulty variant: a pass that loses the loader's first batch
IterSkipFirst(dl) == IF dl = <<>> THEN dl ELSE Tail(dl)

\* iter(dl): a fresh pass over the loader
Iter(dl) == dl

\* len(x): of a list or tuple its items, of a tensor its first dimension
PyLen(x) == IF is_listy(x) THEN Len(x.items) ELSE x.shape[1]

\* faulty variant: the targets are counted as they came, without the wrapping
LenYbUnwrapped(b) == PyLen(YbOf(b))

\* `if not is_listy(yb): yb = [yb]` ... `len(yb)`
LenYb(b) == LET yb == IF ~is_listy(YbOf(b)) THEN ListOf(<<YbOf(b)>>) ELSE YbOf(b)
            IN  PyLen(yb)

\* loss.item(): a function of the parameters and the batch
LossItem(p, b) == Len(p) + b.i

Entry(op) == [op |-> op, opt |-> arg_opt # None, epoch |-> epoch, b |-> cur]

\* ------------------------------------------------------------------ Learner.fit
\* a call of Learner.fit(n, lr, opt_fn): the optimizer is built, and fit starts with
\* fresh locals on self.model, self.data.train_dl and self.data.valid_dl
Learner_fit(n, lr, fn) ==
  /\ UNCHANGED notfit
  /\ pc = "idle"
  /\ calls < MaxCalls
  /\ calls' = calls + 1
  /\ opt' = NewOpt(calls + 1, lr, fn)
  /\ epochs' = n
  /\ epoch' = 0
  /\ result' = "none"
  /\ printed' = <<>>
  /\ val_loss' = NoValue
  /\ shown' = <<>>
  /\ log' = <<>>
  /\ losses' = <<>>
  /\ it' = <<>>
  /\ cur' = NoBatch
  /\ arg_opt' = None
  /\ pc' = "for_epoch"
  /\ UNCHANGED <<train_dl, valid_dl, targets, mode, no_grad, params, grad>>

\* ------------------------------------------------------------------ fit
\* for epoch in range(epochs): model.train(); for xb,yb in train_dl: ...
fit_for_epoch ==
  /\ UNCHANGED notfit
  /\ UNCHANGED <<val_loss, shown>>
  /\ pc = "for_epoch"
  /\ IF epoch < epochs
       THEN /\ mode' = "train"
            /\ it' = Iter(train_dl)
            /\ pc' = "train_next"
            /\ UNCHANGED result
       ELSE /\ pc' = "idle"
            /\ result' = "returned"
            /\ UNCHANGED <<mode, it>>
  /\ UNCHANGED <<train_dl, valid_dl, targets, calls, epochs, epoch, cur, arg_opt, no_grad,
                 params, grad, opt, losses, printed, log>>

\* the next xb,yb of train_dl, handed to loss_batch with opt; at the end of the
\* pass: model.eval(), with torch.no_grad(), and the validation pass starts
fit_train_next ==
  /\ UNCHANGED notfit
  /\ UNCHANGED <<val_loss, shown>>
  /\ pc = "train_next"
  /\ IF it # <<>>
       THEN /\ cur' = Head(it)
            /\ it' = Tail(it)
            /\ arg_opt' = "opt"
            /\ pc' = "forward"
            /\ UNCHANGED <<mode, no_grad, losses>>
       ELSE /\ mode' = "eval"
            /\ no_grad' = TRUE
            /\ it' = Iter(valid_dl)
            /\ losses' = <<>>
            /\ pc' = "valid_next"
            /\ UNCHANGED <<cur, arg_opt>>
  /\ UNCHANGED <<train_dl, valid_dl, targets, calls, result, epochs, epoch, params, grad,
                 opt, printed, log>>

\* faulty variant: the training loop is entered again after the validation pass, in the
\* same epoch
fit_valid_next_retrain ==
  /\ UNCHANGED notfit
  /\ UNCHANGED <<val_loss, shown>>
  /\ pc = "valid_next"
  /\ IF it # <<>>
       THEN /\ cur' = Head(it)
            /\ it' = Tail(it)
            /\ arg_opt' = None
            /\ pc' = "forward"
            /\ UNCHANGED no_grad
       ELSE /\ no_grad' = FALSE
            /\ it' = Iter(train_dl)
            /\ pc' = "train_next"
            /\ UNCHANGED <<cur, arg_opt>>
  /\ UNCHANGED <<train_dl, valid_dl, targets, calls, result, epochs, epoch, mode, params,
                 grad, opt, losses, printed, log>>

\* the next xb,yb of valid_dl, handed to loss_batch without opt
fit_valid_next ==
  /\ UNCHANGED notfit
  /\ UNCHANGED <<val_loss, shown>>
  /\ pc = "valid_next"
  /\ IF it # <<>>
       THEN /\ cur' = Head(it)
            /\ it' = Tail(it)
            /\ arg_opt' = None
            /\ pc' = "forward"
            /\ UNCHANGED no_grad
       ELSE /\ no_grad' = FALSE
            /\ pc' = "val_loss"
            /\ UNCHANGED <<cur, it, arg_opt>>
  /\ UNCHANGED <<train_dl, valid_dl, targets, calls, result, epochs, epoch, mode, params,
                 grad, opt, losses, printed, log>>

RECURSIVE SumSeq(_)
\* np.sum
SumSeq(s) == IF s = <<>> THEN 0 ELSE Head(s) + SumSeq(Tail(s))

\* np.sum(np.multiply(losses,nums)) / np.sum(nums), as the fraction num/den
ValLoss(ls) ==
  [num |-> SumSeq([j \in 1..Len(ls) |-> ls[j][1] * ls[j][2]]),
   den |-> SumSeq([j \in 1..Len(ls) |-> ls[j][2]])]

\* losses,nums = zip(*[...]): unpacking nothing raises ValueError; then
\* val_loss = np.sum(np.multiply(losses,nums)) / np.sum(nums)
fit_val_loss ==
  /\ UNCHANGED notfit
  /\ UNCHANGED shown
  /\ pc = "val_loss"
  /\ IF losses # <<>>
       THEN pc' = "print" /\ val_loss' = ValLoss(losses) /\ UNCHANGED result
       ELSE pc' = "idle" /\ result' = "raised" /\ UNCHANGED val_loss
  /\ UNCHANGED <<train_dl, valid_dl, targets, calls, epochs, epoch, it, cur, arg_opt, mode,
                 no_grad, params, grad, opt, losses, printed, log>>

\* print(epoch, val_loss), and on to the next epoch
fit_print ==
  /\ UNCHANGED notfit
  /\ UNCHANGED val_loss
  /\ pc = "print"
  /\ printed' = Append(printed, epoch)
  /\ shown' = Append(shown, val_loss)
  /\ log' = Append(log, [op |-> "print", opt |-> FALSE, epoch |-> epoch, b |-> NoBatch])
  /\ epoch' = epoch + 1
  /\ pc' = "for_epoch"
  /\ UNCHANGED <<train_dl, valid_dl, targets, calls, result, epochs, it, cur, arg_opt, mode,
                 no_grad, params, grad, opt, losses>>

\* ------------------------------------------------------------------ loss_batch
\* faulty variant: the backward pass and the optimizer step are not guarded by opt
AfterForwardAlways(o) == "backward"

\* where loss_batch goes after the loss is computed: `if opt is not None:`
AfterForward(o) == IF o # None THEN "backward" ELSE "return"

\* loss = loss_fn(model(*xb), *yb)
loss_batch_forward ==
  /\ UNCHANGED notfit
  /\ UNCHANGED <<val_loss, shown>>
  /\ pc = "forward"
  /\ log' = Append(log, Entry("forward"))
  /\ pc' = AfterForward(arg_opt)
  /\ UNCHANGED <<train_dl, valid_dl, targets, calls, result, epochs, epoch, it, cur, arg_opt,
                 mode, no_grad, params, grad, opt, losses, printed>>

\* loss.backward(): the batch's gradient is added to .grad
loss_batch_backward ==
  /\ UNCHANGED notfit
  /\ UNCHANGED <<val_loss, shown>>
  /\ pc = "backward"
  /\ grad' = Append(grad, cur)
  /\ log' = Append(log, Entry("backward"))
  /\ pc' = "step"
  /\ UNCHANGED <<train_dl, valid_dl, targets, calls, result, epochs, epoch, it, cur, arg_opt,
                 mode, no_grad, params, opt, losses, printed>>

\* opt.step(): the parameters move by what .grad holds
loss_batch_step ==
  /\ UNCHANGED notfit
  /\ UNCHANGED <<val_loss, shown>>
  /\ pc = "step"
  /\ params' = params \o grad
  /\ opt' = [opt EXCEPT !.steps = @ + 1]
  /\ log' = Append(log, Entry("step"))
  /\ pc' = "zero_grad"
  /\ UNCHANGED <<train_dl, valid_dl, targets, calls, result, epochs, epoch, it, cur, arg_opt,
                 mode, no_grad, grad, losses, printed>>

\* opt.zero_grad()
loss_batch_zero_grad ==
  /\ UNCHANGED notfit
  /\ UNCHANGED <<val_loss, shown>>
  /\ pc = "zero_grad"
  /\ grad' = <<>>
  /\ log' = Append(log, Entry("zero_grad"))
  /\ pc' = "return"
  /\ UNCHANGED <<train_dl, valid_dl, targets, calls, result, epochs, epoch, it, cur, arg_opt,
                 mode, no_grad, params, opt, losses, printed>>

\* return loss.item(), len(yb): to the training loop, which drops it, or to the
\* validation comprehension, which collects it
loss_batch_return ==
  /\ UNCHANGED notfit
  /\ UNCHANGED <<val_loss, shown>>
  /\ pc = "return"
  /\ IF arg_opt # None
       THEN pc' = "train_next" /\ UNCHANGED losses
       ELSE /\ pc' = "valid_next"
            /\ losses' = Append(losses, <<LossItem(params, cur), LenYb(cur)>>)
  /\ UNCHANGED <<train_dl, valid_dl, targets, calls, result, epochs, epoch, it, cur, arg_opt,
                 mode, no_grad, params, grad, opt, printed, log>>

\* ------------------------------------------------------------------ failures
\* the positions at which fit is inside a call of the loader, the model, the loss
\* function or the optimizer
FrameworkCalls == {"train_next", "valid_next", "forward", "backward", "step", "zero_grad"}

\* faulty variant: the exception is caught and the loop carries on with the next batch
RaiseCaught ==
  /\ UNCHANGED notfit
  /\ UNCHANGED <<val_loss, shown>>
  /\ pc \in FrameworkCalls
  /\ pc' = IF arg_opt = None /\ pc # "train_next" THEN "valid_next" ELSE "train_next"
  /\ result' = "raised"
  /\ UNCHANGED <<train_dl, valid_dl, targets, calls, epochs, epoch, it, cur, arg_opt, mode,
                 no_grad, params, grad, opt, losses, printed, log>>

\* the call raises: nothing in loss_batch or fit catches, `with torch.no_grad()`
\* is left, and the exception reaches Learner.fit's caller
Raise ==
  /\ UNCHANGED notfit
  /\ UNCHANGED <<val_loss, shown>>
  /\ pc \in FrameworkCalls
  /\ pc' = "idle"
  /\ result' = "raised"
  /\ no_grad' = FALSE
  /\ UNCHANGED <<train_dl, valid_dl, targets, calls, epochs, epoch, it, cur, arg_opt, mode,
                 params, grad, opt, losses, printed, log>>

\* ------------------------------------------------------------------ specification
\* no Learner.fit call made yet
FitStart ==
  /\ calls = 0
  /\ pc = "idle"
  /\ result = "none"
  /\ epochs = 0
  /\ epoch = 0
  /\ it = <<>>
  /\ cur = NoBatch
  /\ arg_opt = None
  /\ mode = "train"
  /\ no_grad = FALSE
  /\ params = <<>>
  /\ grad = <<>>
  /\ opt = NoOpt
  /\ losses = <<>>
  /\ printed = <<>>
  /\ val_loss = NoValue
  /\ shown = <<>>
  /\ log = <<>>

FitInit ==
  /\ train_dl \in {Loader("train", n) : n \in 0..MaxBatches}
  /\ valid_dl \in {Loader("valid", n) : n \in 0..MaxBatches}
  /\ targets = [train |-> [i \in 1..Len(train_dl) |-> Labels(MaxBs)],
                valid |-> [i \in 1..Len(valid_dl) |-> Labels(MaxBs)]]
  /\ FitStart

\* the parts of the notebook a specification does not run stay as they are
NoDataset == [kind |-> None, items |-> <<>>]

TfmIdle == valid_ds = NoDataset /\ tfm = None /\ ret = [op |-> None]

NoLoader == [kind |-> None]
NoGen == [src |-> <<>>, pos |-> -1]

LdrIdle == cuda = FALSE /\ ddl = NoLoader /\ gen = NoGen /\ out = <<>> /\ iters = 0 /\ length = -1

NoData == [device |-> None, made |-> FALSE]
NoLearner == [made |-> FALSE]
NoXb == [dl |-> None]

BunchIdle == datasets = <<>> /\ data = NoData /\ learner = NoLearner /\ xb = NoXb

NoModel == [kind |-> None]

NetIdle ==
  /\ actns = <<>> /\ kernel_szs = <<>> /\ strides = <<>>
  /\ model = NoModel /\ cell = None /\ acts = <<>>

Init == FitInit /\ TfmIdle /\ LdrIdle /\ BunchIdle /\ NetIdle

Next ==
  \/ \E n \in 0..MaxEpochs, lr \in Lrs, fn \in OptFns : Learner_fit(n, lr, fn)
  \/ fit_for_epoch
  \/ fit_train_next
  \/ fit_valid_next
  \/ fit_val_loss
  \/ fit_print
  \/ loss_batch_forward
  \/ loss_batch_backward
  \/ loss_batch_step
  \/ loss_batch_zero_grad
  \/ loss_batch_return
  \/ Raise

Spec == Init /\ [][Next]_vars

\* ------------------------------------------------------------------ validation loss
\* the targets of a batch of k samples: one tensor (t = 0) or a list of t tensors
Yb(k, t) == IF t = 0 THEN Labels(k) ELSE ListOf([j \in 1..t |-> Labels(k)])

TargetKinds == {0, 1, 2}

\* the targets of a loader of n batches of bs samples, the last one of `last`
\* samples (what is left of the dataset), every batch with the dataset's kind of
\* target
TargetsOf(n, last, t) == [i \in 1..n |-> Yb(IF i = n THEN last ELSE MaxBs, t)]

LossInit ==
  /\ train_dl \in {Loader("train", n) : n \in 0..1}
  /\ valid_dl \in {Loader("valid", n) : n \in 0..MaxBatches}
  /\ \E last \in 1..MaxBs, t \in TargetKinds :
       targets = [train |-> [i \in 1..Len(train_dl) |-> Labels(MaxBs)],
                  valid |-> TargetsOf(Len(valid_dl), last, t)]
  /\ FitStart

InitLoss == LossInit /\ TfmIdle /\ LdrIdle /\ BunchIdle /\ NetIdle

SpecLoss == InitLoss /\ [][Next]_vars

\* ------------------------------------------------------------------ reading the log
Forwards == SelectSeq(log, LAMBDA x : x.op = "forward")

Count(op) == Len(SelectSeq(log, LAMBDA x : x.op = op))

\* the batches whose loss_batch call started in epoch e, with (o) or without the optimizer
Batches(e, o) == LET f == SelectSeq(Forwards, LAMBDA x : x.epoch = e /\ x.opt = o)
                 IN  [i \in 1..Len(f) |-> f[i].b]

Upto(n) == [i \in 1..n |-> i - 1]

Returned == pc = "idle" /\ result = "returned"
Raised   == pc = "idle" /\ result = "raised"

\* fit is in the validation part of an epoch
InValidation ==
  \/ pc \in {"valid_next", "val_loss", "print"}
  \/ pc \in {"forward", "backward", "step", "zero_grad", "return"} /\ arg_opt = None

\* ------------------------------------------------------------------ C1
\* the batches of the log are ordered by epoch, and inside an epoch every training
\* batch comes before every validation batch (each batch against the one after it:
\* the order is transitive)
EpochOrder ==
  LET f == Forwards
      Before(x, y) == \/ x.epoch < y.epoch
                      \/ x.epoch = y.epoch /\ (x.opt \/ ~y.opt)
  IN  \A i \in 1..(Len(f) - 1) : Before(f[i], f[i + 1])

\* C1: in every epoch the model is trained on train_dl and then validated against
\* valid_dl: every training batch of epoch e is processed before any validation
\* batch of epoch e, and every validation batch of epoch e before any training
\* batch of epoch e+1; validation starts with the whole of train_dl trained on,
\* and the epoch's line is printed with the whole of valid_dl evaluated.
C1_TrainThenValidate ==
  /\ EpochOrder
  /\ InValidation => Batches(epoch, TRUE) = train_dl
  /\ pc = "print" => Batches(epoch, FALSE) = valid_dl

C1_Witness ==
  /\ pc = "forward" /\ arg_opt # None /\ epoch = 1
  /\ Len(Batches(0, TRUE)) = 2 /\ Len(Batches(0, FALSE)) = 2

\* ------------------------------------------------------------------ C2
\* the framework calls of the loss_batch call that is returning: the log from its
\* forward pass on
LastCall == LET k == CHOOSE k \in 1..Len(log) :
                       /\ log[k].op = "forward"
                       /\ \A j \in (k+1)..Len(log) : log[j].op # "forward"
            IN  [i \in 1..(Len(log) - k + 1) |-> log[k + i - 1].op]

LossBatchCalls ==
  pc = "return" =>
    LastCall = IF arg_opt # None THEN <<"forward", "backward", "step", "zero_grad">>
                                 ELSE <<"forward">>

\* C2: with opt, loss_batch makes after the forward pass and the loss exactly one
\* backward pass, then one optimizer step, then one zero-gradient reset, in that
\* order; without opt it makes none of the three, and in the whole validation part
\* of fit the parameters and the gradients stay as they are.
C2_BackpropOnlyWithOpt ==
  /\ []LossBatchCalls
  /\ [][InValidation => params' = params /\ grad' = grad]_vars

C2_Witness ==
  /\ pc = "return" /\ arg_opt = None
  /\ params # <<>> /\ Count("zero_grad") > 0

\* ------------------------------------------------------------------ C7
\* C7: a call Learner.fit(epochs, lr, opt_fn) that returns has run exactly `epochs`
\* epochs, each training on data.train_dl and validating on data.valid_dl, with an
\* optimizer built for this call by opt_fn with lr: the optimizer has made only
\* this call's steps; the call starts from the parameters the previous call left.
C7_LearnerFit ==
  /\ [](Returned => /\ printed = Upto(epochs)
                    /\ \A e \in 0..(epochs - 1) : /\ Batches(e, TRUE) = train_dl
                                                   /\ Batches(e, FALSE) = valid_dl)
  /\ [](opt.steps = Count("step") /\ opt.id = calls)
  /\ [][calls' # calls => /\ params' = params
                          /\ opt'.steps = 0
                          /\ \E lr \in Lrs, fn \in OptFns :
                               opt' = [id |-> calls', lr |-> lr, fn |-> fn, steps |-> 0]]_vars

C7_Witness ==
  /\ Returned /\ calls = 2
  /\ opt.steps > 0 /\ Len(params) > opt.steps

\* ------------------------------------------------------------------ C8
\* C8: a failure of the model, the loss function, the optimizer or a loader ends
\* the call at once: the step that raises changes neither the parameters nor the
\* log nor the printed lines, nothing more happens until the caller calls again,
\* the lines printed are those of the epochs before the failing one, and the
\* parameters keep every update made before the failure.
C8_FailuresPropagate ==
  /\ [](result = "raised" => /\ pc = "idle"
                             /\ epoch < epochs
                             /\ printed = Upto(epoch)
                             /\ Len(params) >= Count("step"))
  /\ [][result' = "raised" /\ result # "raised" =>
          pc' = "idle" /\ params' = params /\ log' = log /\ printed' = printed]_vars
  /\ [][result = "raised" => calls' = calls + 1 /\ params' = params]_vars

C8_Witness ==
  /\ Raised /\ epoch = 1 /\ printed = <<0>>
  /\ pc = "idle" /\ Count("step") = 3 /\ Len(params) = 3

\* ------------------------------------------------------------------ C9
RECURSIVE BatchLog(_, _, _)
\* what loss_batch logs for the batches bs of epoch e, one batch after the other
BatchLog(bs, e, o) ==
  IF bs = <<>> THEN <<>>
  ELSE LET x(op) == [op |-> op, opt |-> o, epoch |-> e, b |-> Head(bs)]
       IN  (IF o THEN <<x("forward"), x("backward"), x("step"), x("zero_grad")>>
                 ELSE <<x("forward")>>) \o BatchLog(Tail(bs), e, o)

RECURSIVE FitLog(_, _)
\* the log of epochs e .. n-1
FitLog(e, n) ==
  IF e >= n THEN <<>>
  ELSE BatchLog(train_dl, e, TRUE) \o BatchLog(valid_dl, e, FALSE)
       \o <<[op |-> "print", opt |-> FALSE, epoch |-> e, b |-> NoBatch]>>
       \o FitLog(e + 1, n)

\* C9: fit(epochs = n) over T training batches and V >= 1 validation batches that
\* does not fail processes the batches one at a time and in loader order, each
\* training batch once per epoch: n*T optimizer steps, n*V validation evaluations
\* and n printed lines, for the epochs 0..n-1 in increasing order, each after its
\* epoch's validation; with n = 0 nothing is done.
C9_FitCounts ==
  Returned /\ (valid_dl # <<>> \/ epochs = 0) =>
    /\ log = FitLog(0, epochs)
    /\ opt.steps = epochs * Len(train_dl)
    /\ Count("step") = epochs * Len(train_dl)
    /\ Len(SelectSeq(Forwards, LAMBDA x : ~x.opt)) = epochs * Len(valid_dl)
    /\ printed = Upto(epochs)
    /\ epochs = 0 => log = <<>>

C9_Witness ==
  /\ Returned /\ epochs = 2 /\ Len(train_dl) = 2 /\ Len(valid_dl) = 2
  /\ Count("step") = 4

\* the number of target tensors of a batch's yb
TargetCount(yb) == IF yb.kind = "tensor" THEN 1 ELSE Len(yb.items)

\* the losses of the validation batches under the current parameters, in loader order
EpochLosses == [j \in 1..Len(valid_dl) |-> LossItem(params, valid_dl[j])]

\* the fraction v is the plain mean of xs
MeanOf(v, xs) == v.den > 0 /\ v.num * Len(xs) = v.den * SumSeq(xs)

\* C11: the count loss_batch returns is the number of target tensors in yb after a
\* yb that is no list has been wrapped (1 for a single tensor), whatever the number
\* of samples in the batch; so the val_loss fit computes and prints for an epoch
\* is the unweighted mean of that epoch's validation batch losses, a smaller
\* last batch weighing as much as a full one.
C11_CountIsTargets ==
  /\ Len(losses) <= Len(valid_dl)
  /\ \A j \in 1..Len(losses) :
       losses[j][2] = TargetCount(YbOf(valid_dl[j]))
  /\ pc = "print" => MeanOf(val_loss, EpochLosses)
  /\ shown # <<>> /\ (pc = "for_epoch" \/ Returned) =>
       MeanOf(shown[Len(shown)], EpochLosses)

\* a call has returned after validating on a full batch and a smaller last one
\* with different losses, the target a single tensor
C11_Witness ==
  /\ Returned /\ shown # <<>> /\ Len(valid_dl) = 2
  /\ YbOf(valid_dl[1]).kind = "tensor"
  /\ PyLen(YbOf(valid_dl[2])) < PyLen(YbOf(valid_dl[1]))
  /\ losses[1][2] = 1 /\ losses[2][2] = 1
  /\ losses[1][1] # losses[2][1]

\* ================================================================== tensors
RECURSIVE Numel(_)
Numel(shape) == IF shape = <<>> THEN 1 ELSE Head(shape) * Numel(Tail(shape))

\* t.view(shape): the same elements under another shape; a -1 stands for what is left
View(t, shape) ==
  LET known == Numel([i \in 1..Len(shape) |-> IF shape[i] = -1 THEN 1 ELSE shape[i]])
  IN  [t EXCEPT !.shape = [i \in 1..Len(shape) |->
                             IF shape[i] = -1 THEN Len(t.data) \div known ELSE shape[i]]]

\* t[i]: the i-th slice along the first dimension (i from 0)
Index(t, i) ==
  LET m == Numel(Tail(t.shape))
  IN  Tensor(Tail(t.shape), SubSeq(t.data, i * m + 1, (i + 1) * m), t.dev)

RECURSIVE Cat(_)
Cat(ts) == IF ts = <<>> THEN <<>> ELSE Head(ts).data \o Cat(Tail(ts))

\* torch.stack(ts): a new first dimension over tensors of one shape
Stack(ts) == Tensor(<<Len(ts)>> \o ts[1].shape, Cat(ts), ts[1].dev)

\* torch.allclose(a, b) on exact elements
AllClose(a, b) == a.shape = b.shape /\ a.data = b.data

\* ------------------------------------------------------------------ datasets
Side == 28          \* mnist2image: b.view(1,28,28)

\* pixel k of image i of an MNIST-like archive; `seed` varies the archive
Pixel(seed, i, k) == (seed * i + k + (k \div Side)) % 2

\* TensorDataset(x, y) over n flat images and their labels: item i is (x[i], y[i])
MnistDataset(n, seed) ==
  [kind |-> "TensorDataset", items |->
   [i \in 1..n |-> TupleOf(<<Tensor(<<Side * Side>>,
                                   [k \in 1..(Side * Side) |-> Pixel(seed, i, k)], "cpu"),
                            Tensor(<<>>, <<(i + seed) % 10>>, "cpu")>>)]]

\* def mnist2image(b): return b.view(1,28,28)
mnist2image(b) == View(b, <<1, Side, Side>>)

\* def noop(x): return x
noop(x) == x

Tfms == {None, "mnist2image", "noop"}

\* self.tfm(x)
ApplyTfm(f, x) == CASE f = "mnist2image" -> mnist2image(x)
                    [] f = "noop" -> noop(x)

\* ------------------------------------------------------------------ DatasetTfm
DatasetTfm(ds, f) == [kind |-> "DatasetTfm", ds |-> ds, tfm |-> f]

\* def __len__(self): return len(self.ds)
DatasetTfm_len(self) == Len(self.ds.items)

\* faulty variant: the transform is never applied
DatasetTfm_getitem_raw(self, idx) == self.ds.items[idx + 1]

\* def __getitem__(self, idx): x,y = self.ds[idx]; x = self.tfm(x) unless tfm is None
DatasetTfm_getitem(self, idx) ==
  LET x == self.ds.items[idx + 1].items[1]
      y == self.ds.items[idx + 1].items[2]
  IN  TupleOf(<<IF self.tfm # None THEN ApplyTfm(self.tfm, x) ELSE x, y>>)

\* ------------------------------------------------------------------ torch's DataLoader
DataLoader(dataset, bs, shuffle) ==
  [kind |-> "DataLoader", dataset |-> dataset, bs |-> bs, shuffle |-> shuffle]

\* len(dataset), dataset[idx]
DsLen(d) == IF d.kind = "DatasetTfm" THEN DatasetTfm_len(d) ELSE Len(d.items)
DsGetitem(d, idx) == IF d.kind = "DatasetTfm" THEN DatasetTfm_getitem(d, idx)
                                              ELSE d.items[idx + 1]

\* len(dl): the last batch may be short
DataLoader_len(dl) == (DsLen(dl.dataset) + dl.bs - 1) \div dl.bs

\* the orders in which one pass may visit the items: any when shuffling
Orders(dl) ==
  LET n == DsLen(dl.dataset)
  IN  IF dl.shuffle
        THEN {o \in [1..n -> 0..(n - 1)] : \A i, j \in 1..n : i # j => o[i] # o[j]}
        ELSE {[i \in 1..n |-> i - 1]}

RECURSIVE Collate(_)
\* default_collate: tensors are stacked, tuples are collated item by item into a list
Collate(items) ==
  IF items[1].kind = "tensor" THEN Stack(items)
  ELSE ListOf([j \in 1..Len(items[1].items) |->
                 Collate([i \in 1..Len(items) |-> items[i].items[j]])])

\* the batches of the pass that visits the items in order o
DataLoader_pass(dl, o) ==
  [k \in 1..DataLoader_len(dl) |->
     LET lo == (k - 1) * dl.bs
         hi == IF k * dl.bs < Len(o) THEN k * dl.bs ELSE Len(o)
     IN  Collate([j \in 1..(hi - lo) |-> DsGetitem(dl.dataset, o[lo + j])])]

\* ================================================================== DatasetTfm in use
valid_tds == DatasetTfm(valid_ds, tfm)

\* len(valid_tds)
call_len ==
  /\ valid_ds.kind # None
  /\ ret' = [op |-> "len", idx |-> 0, val |-> DatasetTfm_len(valid_tds)]
  /\ UNCHANGED <<valid_ds, tfm>>
  /\ UNCHANGED nottfm

\* valid_tds[idx], for an index of the dataset
call_getitem(idx) ==
  /\ valid_ds.kind # None
  /\ idx < DatasetTfm_len(valid_tds)
  /\ ret' = [op |-> "getitem", idx |-> idx, val |-> DatasetTfm_getitem(valid_tds, idx)]
  /\ UNCHANGED <<valid_ds, tfm>>
  /\ UNCHANGED nottfm

\* the notebook's check of mnist2image:
\*   valid_dl = DataLoader(valid_tds, bs*2, shuffle=False); x,y = next(iter(valid_dl))
\*   torch.allclose(valid_ds[0][0], x[0].view(-1))
check_mnist2image(bs) ==
  /\ valid_ds.kind # None
  /\ valid_ds.items # <<>>
  /\ LET dl == DataLoader(valid_tds, bs * 2, FALSE)
         o  == CHOOSE o \in Orders(dl) : TRUE
         xy == DataLoader_pass(dl, o)[1]
         x  == xy.items[1]
     IN  ret' = [op |-> "allclose", idx |-> 0,
                 val |-> AllClose(valid_ds.items[1].items[1], View(Index(x, 0), <<-1>>))]
  /\ UNCHANGED <<valid_ds, tfm>>
  /\ UNCHANGED nottfm

FitIdle ==
  /\ train_dl = <<>> /\ valid_dl = <<>> /\ targets = [train |-> <<>>, valid |-> <<>>]
  /\ calls = 0 /\ pc = "idle" /\ result = "none"
  /\ epochs = 0 /\ epoch = 0 /\ it = <<>> /\ cur = NoBatch /\ arg_opt = None
  /\ mode = "train" /\ no_grad = FALSE /\ params = <<>> /\ grad = <<>> /\ opt = NoOpt
  /\ losses = <<>> /\ printed = <<>> /\ val_loss = NoValue /\ shown = <<>> /\ log = <<>>

Seeds == 0..2

TfmInit ==
  /\ valid_ds \in {MnistDataset(n, seed) : n \in 0..MaxItems, seed \in Seeds}
  /\ tfm \in Tfms
  /\ ret = [op |-> None]

InitTfm == TfmInit /\ FitIdle /\ LdrIdle /\ BunchIdle /\ NetIdle

NextTfm ==
  \/ call_len
  \/ \E idx \in 0..(MaxItems - 1) : call_getitem(idx)
  \/ \E bs \in 1..MaxBs : check_mnist2image(bs)

SpecTfm == InitTfm /\ [][NextTfm]_vars

\* ------------------------------------------------------------------ C5
\* C5: a DatasetTfm is as long as the dataset it wraps; its item i is (tfm(x_i), y_i)
\* for the wrapped item (x_i, y_i), with y_i as it is and, when tfm is None, x_i as
\* it is; with mnist2image the item's features are the elements of x_i under the
\* shape (1,28,28); the notebook's allclose check of the first validation item
\* holds; and no call changes the wrapped dataset.
C5_DatasetTfm ==
  /\ [](ret.op = "len" => ret.val = Len(valid_ds.items))
  /\ [](ret.op = "getitem" =>
          LET x == valid_ds.items[ret.idx + 1].items[1]
              y == valid_ds.items[ret.idx + 1].items[2]
          IN  /\ ret.val.kind = "tuple" /\ Len(ret.val.items) = 2
              /\ ret.val.items[2] = y
              /\ tfm = None => ret.val.items[1] = x
              /\ tfm # None => ret.val.items[1] = ApplyTfm(tfm, x)
              /\ tfm = "mnist2image" =>
                   /\ ret.val.items[1].shape = <<1, 28, 28>>
                   /\ ret.val.items[1].data = x.data)
  /\ [](ret.op = "allclose" => ret.val = TRUE)
  /\ [][valid_ds' = valid_ds]_vars

C5_Witness ==
  /\ ret.op = "getitem" /\ ret.idx = 1 /\ tfm = "mnist2image"
  /\ ret.val.items[1].shape # valid_ds.items[2].items[1].shape

\* ================================================================== devices
\* def ifnone(a, b): return b if a is None else a
ifnone(a, b) == IF a = None THEN b ELSE a

\* default_device = torch.device('cuda') if torch.cuda.is_available() else torch.device('cpu')
default_device == IF cuda THEN "cuda" ELSE "cpu"

\* the device arguments a caller can pass: None, or a device the machine has
DeviceArgs(c) == {None, "cpu"} \cup (IF c THEN {"cuda"} ELSE {})

RECURSIVE to_device(_, _)
\* faulty variant: a list or tuple batch is handed back as it is
to_device_shallow(b, device) ==
  IF is_listy(b) THEN b ELSE [b EXCEPT !.dev = ifnone(device, default_device)]

\* def to_device(b, device): every tensor of b moved with .to(device), lists and
\* tuples rebuilt as lists
to_device(b, device) ==
  LET d == ifnone(device, default_device)
  IN  IF is_listy(b) THEN ListOf([i \in 1..Len(b.items) |-> to_device(b.items[i], d)])
      ELSE [b EXCEPT !.dev = d]

\* ------------------------------------------------------------------ DeviceDataLoader
DeviceDataLoader(dl, device) == [kind |-> "DeviceDataLoader", dl |-> dl, device |-> device]

\* def create(cls, *args, device=default_device, **kwargs):
\*     return cls(DataLoader(*args, **kwargs), device=device)
DeviceDataLoader_create(dataset, bs, shuffle, device) ==
  DeviceDataLoader(DataLoader(dataset, bs, shuffle), device)

\* def __len__(self): return len(self.dl)
DeviceDataLoader_len(self) == DataLoader_len(self.dl)

\* def proc_batch(self, b): return to_device(b, self.device)
proc_batch(self, b) == to_device(b, self.device)

\* a small dataset on the cpu: item i is (x_i, y_i), or (x_i, (y_i, z_i)) when nested
ToyDataset(n, nested) ==
  [kind |-> "TensorDataset", items |->
   [i \in 1..n |->
      LET x == Tensor(<<2>>, <<i, i + 1>>, "cpu")
          y == Tensor(<<>>, <<i % 2>>, "cpu")
          z == Tensor(<<1>>, <<i>>, "cpu")
      IN  TupleOf(<<x, IF nested THEN TupleOf(<<y, z>>) ELSE y>>)]]

MaxIters == 2       \* calls of __iter__ on one loader

\* def __iter__(self): self.gen = map(self.proc_batch, self.dl); return iter(self.gen)
\* map takes iter(self.dl) at once: a pass of the wrapped loader, in one of its orders
ddl_iter(o) ==
  /\ ddl.kind # None
  /\ iters < MaxIters
  /\ o \in Orders(ddl.dl)
  /\ gen' = [src |-> DataLoader_pass(ddl.dl, o), pos |-> 0]
  /\ out' = <<>>
  /\ iters' = iters + 1
  /\ UNCHANGED <<cuda, ddl, length>>
  /\ UNCHANGED notldr

\* next() on the iterator: the wrapped pass's next batch, through proc_batch
ddl_next ==
  /\ gen # NoGen
  /\ gen.pos < Len(gen.src)
  /\ out' = Append(out, proc_batch(ddl, gen.src[gen.pos + 1]))
  /\ gen' = [gen EXCEPT !.pos = @ + 1]
  /\ UNCHANGED <<cuda, ddl, iters, length>>
  /\ UNCHANGED notldr

\* len(ddl)
ddl_len ==
  /\ ddl.kind # None
  /\ length' = DeviceDataLoader_len(ddl)
  /\ UNCHANGED <<cuda, ddl, gen, out, iters>>
  /\ UNCHANGED notldr

LdrInit ==
  /\ cuda \in BOOLEAN
  /\ \E n \in 0..MaxItems, nested \in BOOLEAN, bs \in 1..MaxBs, shuffle \in BOOLEAN :
       \E device \in DeviceArgs(cuda) :
         ddl = DeviceDataLoader_create(DatasetTfm(ToyDataset(n, nested), None),
                                       bs, shuffle, device)
  /\ gen = NoGen
  /\ out = <<>>
  /\ iters = 0
  /\ length = -1

InitLdr == LdrInit /\ FitIdle /\ TfmIdle /\ BunchIdle /\ NetIdle

NextLdr ==
  \/ \E o \in Orders(ddl.dl) : ddl_iter(o)
  \/ ddl_next
  \/ ddl_len

SpecLdr == InitLdr /\ [][NextLdr]_vars

\* ------------------------------------------------------------------ C3
RECURSIVE AllOn(_, _)
\* every tensor of b, however deep in lists and tuples, is on device d
AllOn(b, d) == IF is_listy(b) THEN \A i \in 1..Len(b.items) : AllOn(b.items[i], d)
               ELSE b.dev = d

RECURSIVE SameBatch(_, _)
\* a and b hold the same tensors (shape and elements) in the same places
SameBatch(a, b) ==
  IF is_listy(a) \/ is_listy(b)
    THEN /\ is_listy(a) /\ is_listy(b)
         /\ Len(a.items) = Len(b.items)
         /\ \A i \in 1..Len(a.items) : SameBatch(a.items[i], b.items[i])
    ELSE a.shape = b.shape /\ a.data = b.data

\* C3: a pass over a DeviceDataLoader yields the batches of the wrapped loader's
\* pass, as many and in the same order, each with every tensor, however nested,
\* on the loader's device (the default device when that is None); len() is the
\* wrapped loader's; and every __iter__ starts a fresh pass over the whole loader.
C3_DeviceDataLoader ==
  /\ [](gen # NoGen =>
          /\ Len(gen.src) = DataLoader_len(ddl.dl)
          /\ Len(out) = gen.pos
          /\ \A i \in 1..Len(out) :
               /\ SameBatch(out[i], gen.src[i])
               /\ AllOn(out[i], IF ddl.device = None THEN default_device ELSE ddl.device))
  /\ [](length # -1 => length = DataLoader_len(ddl.dl))
  /\ [][iters' # iters => out' = <<>> /\ gen'.pos = 0
                          /\ Len(gen'.src) = DataLoader_len(ddl.dl)]_vars

C3_Witness ==
  /\ iters = 2 /\ gen.pos = Len(gen.src) /\ Len(out) = 2
  /\ cuda /\ ddl.device = None /\ ddl.dl.shuffle
  /\ out[1].items[2].kind = "list" /\ out[2].items[2].items[1].dev = "cuda"
  /\ out[1].items[1].data # gen.src[2].items[1].data

\* ================================================================== DataBunch
\* the dataclass constructor DataBunch(train_dl, valid_dl, device=None): the three
\* fields, stored as given
DataBunch(tdl, vdl, device) ==
  [made |-> TRUE, train_dl |-> tdl, valid_dl |-> vdl, device |-> device]

\* def create(cls, train_ds, valid_ds, bs=64, train_tfm=None, valid_tfm=None, device=None)
DataBunch_create(tds, vds, bs, train_tfm, valid_tfm, device) ==
  DataBunch(DeviceDataLoader_create(DatasetTfm(tds, train_tfm), bs, TRUE, device),
            DeviceDataLoader_create(DatasetTfm(vds, valid_tfm), bs * 2, FALSE, device),
            device)

\* a model fresh from simple_cnn: a module on the cpu
Module == [kind |-> "module", dev |-> "cpu"]

\* def __init__(self, data, model): self.data,self.model = data,to_device(model, data.device)
Learner(d, m) == [made |-> TRUE, model |-> to_device(m, d.device)]

\* the batches of one pass over a loader of either class
LoaderPass(l, o) ==
  IF l.kind = "DeviceDataLoader"
    THEN LET src == DataLoader_pass(l.dl, o) IN [k \in 1..Len(src) |-> proc_batch(l, src[k])]
    ELSE DataLoader_pass(l, o)

LoaderOrders(l) == IF l.kind = "DeviceDataLoader" THEN Orders(l.dl) ELSE Orders(l)

\* the loaders a caller may hand to the constructor: torch DataLoaders, or
\* DeviceDataLoaders on a device of the caller's choice
CallerLoaders(ds, bs, shuffle) ==
  {DataLoader(DatasetTfm(ds, None), bs, shuffle)}
  \cup {DeviceDataLoader_create(DatasetTfm(ds, None), bs, shuffle, d) : d \in DeviceArgs(cuda)}

\* data = DataBunch.create(train_ds, valid_ds, bs, train_tfm, valid_tfm, device)
call_DataBunch_create(bs, train_tfm, valid_tfm, device) ==
  /\ datasets # <<>>
  /\ ~data.made
  /\ data' = DataBunch_create(datasets.train_ds, datasets.valid_ds, bs,
                              train_tfm, valid_tfm, device)
  /\ UNCHANGED <<cuda, datasets, learner, xb>>
  /\ UNCHANGED notbunch

\* data = DataBunch(train_dl, valid_dl, device)
call_DataBunch(tdl, vdl, device) ==
  /\ datasets # <<>>
  /\ ~data.made
  /\ data' = DataBunch(tdl, vdl, device)
  /\ UNCHANGED <<cuda, datasets, learner, xb>>
  /\ UNCHANGED notbunch

\* learner = Learner(data, model)
call_Learner ==
  /\ data.made
  /\ ~learner.made
  /\ learner' = Learner(data, Module)
  /\ UNCHANGED <<cuda, datasets, data, xb>>
  /\ UNCHANGED notbunch

\* xb = next(iter(data.train_dl)) or next(iter(data.valid_dl))
take_batch(w) ==
  /\ data.made
  /\ LET l == IF w = "train_dl" THEN data.train_dl ELSE data.valid_dl
     IN  \E o \in LoaderOrders(l) :
           /\ LoaderPass(l, o) # <<>>
           /\ xb' = [dl |-> w, val |-> LoaderPass(l, o)[1]]
  /\ UNCHANGED <<cuda, datasets, data, learner>>
  /\ UNCHANGED notbunch

BunchInit ==
  /\ cuda \in BOOLEAN
  /\ \E n \in 0..MaxItems, nested \in BOOLEAN :
       datasets = [train_ds |-> ToyDataset(n, nested), valid_ds |-> ToyDataset(n, nested)]
  /\ data = NoData
  /\ learner = NoLearner
  /\ xb = NoXb
  /\ ddl = NoLoader /\ gen = NoGen /\ out = <<>> /\ iters = 0 /\ length = -1

InitBunch == BunchInit /\ FitIdle /\ TfmIdle /\ NetIdle

ToyTfms == {None, "noop"}

NextBunch ==
  \/ \E bs \in 1..MaxBs, t \in ToyTfms, v \in ToyTfms, d \in DeviceArgs(cuda) :
       call_DataBunch_create(bs, t, v, d)
  \/ \E bs \in 1..MaxBs, d \in DeviceArgs(cuda) :
       \E tdl \in CallerLoaders(datasets.train_ds, bs, TRUE),
          vdl \in CallerLoaders(datasets.valid_ds, bs * 2, FALSE) :
         call_DataBunch(tdl, vdl, d)
  \/ call_Learner
  \/ \E w \in {"train_dl", "valid_dl"} : take_batch(w)

SpecBunch == InitBunch /\ [][NextBunch]_vars

\* ------------------------------------------------------------------ C4
\* C4: for every DataBunch, built by DataBunch.create or by the constructor, every
\* batch its train_dl and valid_dl yield is on data.device (the default device when
\* that is None), and the model of a Learner on it is on the device of the batches.
C4_BunchBindsDevice ==
  xb.dl # None =>
    /\ AllOn(xb.val, IF data.device = None THEN default_device ELSE data.device)
    /\ learner.made => AllOn(xb.val, learner.model.dev)

\* ================================================================== layers
Lambda(func)   == [kind |-> "Lambda", func |-> func]
Conv2d(ni, nf, kernel_size, stride, padding, bias) ==
  [kind |-> "Conv2d", ni |-> ni, nf |-> nf, kernel_size |-> kernel_size,
   stride |-> stride, padding |-> padding, bias |-> bias]
ReLU           == [kind |-> "ReLU"]
BatchNorm2d(nf) == [kind |-> "BatchNorm2d", nf |-> nf]
AvgPool2d(k)   == [kind |-> "AvgPool2d", k |-> k]
AdaptiveAvgPool2d(sz) == [kind |-> "AdaptiveAvgPool2d", sz |-> sz]
Sequential(layers) == [kind |-> "Sequential", layers |-> layers]

\* def ResizeBatch(*size): return Lambda(lambda x: x.view((-1,)+size))
ResizeBatch(size) == Lambda([view |-> <<-1>> \o size])

\* def Flatten(): return Lambda(lambda x: x.view((x.size(0), -1)))
Flatten == Lambda([view |-> <<0, -1>>])

\* def PoolFlatten(): return nn.Sequential(nn.AdaptiveAvgPool2d(1), Flatten())
PoolFlatten == Sequential(<<AdaptiveAvgPool2d(1), Flatten>>)

\* def conv2d(ni, nf, ks=3, stride=1, padding=None, bias=False):
\*     if padding is None: padding = ks//2
conv2d(ni, nf, ks, stride, padding, bias) ==
  Conv2d(ni, nf, ks, stride, IF padding = None THEN ks \div 2 ELSE padding, bias)

\* the defaults of conv2d_relu's ks and stride, and of conv2d's bias
DefaultKs == 3
DefaultStride == 1
DefaultBias == FALSE

\* def conv2d_relu(ni, nf, ks=3, stride=1, padding=None, bn=False):
\*     layers = [conv2d(ni, nf, ks=ks, stride=stride, padding=padding), nn.ReLU()]
\*     if bn: layers.append(nn.BatchNorm2d(nf))
conv2d_relu(ni, nf, ks, stride, padding, bn) ==
  Sequential(<<conv2d(ni, nf, ks, stride, padding, DefaultBias), ReLU>>
             \o (IF bn THEN <<BatchNorm2d(nf)>> ELSE <<>>))

IndexError == [kind |-> "IndexError"]

\* faulty variant: the strides are not handed on to conv2d_relu
simple_cnn_default_stride(a, k, st) ==
  IF Len(st) > 0 /\ (Len(st) + 1 > Len(a) \/ Len(st) > Len(k)) THEN IndexError
  ELSE Sequential([i \in 1..Len(st) |->
                     conv2d_relu(a[i], a[i + 1], k[i], DefaultStride, None, FALSE)]
                  \o <<PoolFlatten>>)

\* def simple_cnn(actns, kernel_szs, strides):
\*     layers = [conv2d_relu(actns[i], actns[i+1], kernel_szs[i], stride=strides[i])
\*               for i in range(len(strides))]
\*     layers.append(PoolFlatten()); return nn.Sequential(*layers)
\* actns[i+1] or kernel_szs[i] past the end of its list raises IndexError
simple_cnn(a, k, st) ==
  IF Len(st) > 0 /\ (Len(st) + 1 > Len(a) \/ Len(st) > Len(k)) THEN IndexError
  ELSE Sequential([i \in 1..Len(st) |->
                     conv2d_relu(a[i], a[i + 1], k[i], st[i], None, FALSE)]
                  \o <<PoolFlatten>>)

\* the 3-layer CNN of the previous notebook, as the notebook recalls it
PreviousModel ==
  Sequential(<<Lambda([view |-> <<-1, 1, 28, 28>>]),
               Conv2d(1, 16, 3, 2, 1, TRUE), ReLU,
               Conv2d(16, 16, 3, 2, 1, TRUE), ReLU,
               Conv2d(16, 10, 3, 2, 1, TRUE), ReLU,
               AvgPool2d(4),
               Lambda([view |-> <<0, -1>>])>>)

\* model = nn.Sequential(ResizeBatch(1,28,28), conv2d_relu(1, 16), conv2d_relu(16, 16),
\*                       conv2d_relu(16, 10), PoolFlatten())
RefactoredModel ==
  Sequential(<<ResizeBatch(<<1, 28, 28>>),
               conv2d_relu(1, 16, DefaultKs, DefaultStride, None, FALSE),
               conv2d_relu(16, 16, DefaultKs, DefaultStride, None, FALSE),
               conv2d_relu(16, 10, DefaultKs, DefaultStride, None, FALSE),
               PoolFlatten>>)

\* ------------------------------------------------------------------ the forward pass, in shapes
RECURSIVE Modules(_)
\* the layers of a network in the order a batch goes through them
Modules(m) ==
  IF m.kind # "Sequential" THEN <<m>>
  ELSE IF m.layers = <<>> THEN <<>>
  ELSE Modules(Head(m.layers)) \o Modules(Sequential(Tail(m.layers)))

\* x.view(v) on a batch of shape sh: 0 stands for x.size(0), -1 for what is left
ViewShape(sh, v) ==
  LET w == [i \in 1..Len(v) |-> IF v[i] = 0 THEN sh[1] ELSE v[i]]
      known == Numel([i \in 1..Len(w) |-> IF w[i] = -1 THEN 1 ELSE w[i]])
  IN  [i \in 1..Len(w) |-> IF w[i] = -1 THEN Numel(sh) \div known ELSE w[i]]

\* the shape a layer makes of a batch of shape sh = (batch, channels, height, width)
LayerShape(l, sh) ==
  CASE l.kind = "Lambda" -> ViewShape(sh, l.func.view)
    [] l.kind = "Conv2d" ->
         <<sh[1], l.nf,
           (sh[3] + 2 * l.padding - l.kernel_size) \div l.stride + 1,
           (sh[4] + 2 * l.padding - l.kernel_size) \div l.stride + 1>>
    [] l.kind = "AvgPool2d" ->
         <<sh[1], sh[2], (sh[3] - l.k) \div l.k + 1, (sh[4] - l.k) \div l.k + 1>>
    [] l.kind = "AdaptiveAvgPool2d" -> <<sh[1], sh[2], l.sz, l.sz>>
    [] OTHER -> sh

RECURSIVE Shapes(_, _)
\* the shapes after each of the layers ls, fed a batch of shape sh
Shapes(ls, sh) ==
  IF ls = <<>> THEN <<>>
  ELSE <<LayerShape(Head(ls), sh)>> \o Shapes(Tail(ls), LayerShape(Head(ls), sh))

\* ================================================================== the networks in use
MaxLayers == 2      \* the longest strides list tried on simple_cnn
Channels    == {1, 16}
KernelSizes == {1, 3}
StrideSet   == {1, 2}

SeqsUpTo(S, n) == UNION {[1..k -> S] : k \in 0..n}

\* model = simple_cnn(actns, kernel_szs, strides)
call_simple_cnn ==
  /\ model' = simple_cnn(actns, kernel_szs, strides)
  /\ cell' = "simple_cnn"
  /\ acts' = <<>>
  /\ UNCHANGED <<actns, kernel_szs, strides>>
  /\ UNCHANGED notnet

\* the cell that builds the model from the new helpers
build_refactored ==
  /\ model' = RefactoredModel
  /\ cell' = "refactored"
  /\ acts' = <<>>
  /\ UNCHANGED <<actns, kernel_szs, strides>>
  /\ UNCHANGED notnet

\* the previous notebook's cell
build_previous ==
  /\ model' = PreviousModel
  /\ cell' = "previous"
  /\ acts' = <<>>
  /\ UNCHANGED <<actns, kernel_szs, strides>>
  /\ UNCHANGED notnet

\* model(xb) for a batch of bs images: flat for the two hand-built models, already
\* (1,28,28) images of actns[0] channels for a simple_cnn
call_model(bs) ==
  /\ model.kind = "Sequential"
  /\ cell = "simple_cnn" => actns # <<>>
  /\ acts' = Shapes(Modules(model),
                    IF cell = "simple_cnn" THEN <<bs, actns[1], 28, 28>>
                                           ELSE <<bs, 28 * 28>>)
  /\ UNCHANGED <<actns, kernel_szs, strides, model, cell>>
  /\ UNCHANGED notnet

\* get_model: simple_cnn([1,16,16,10], [3,3,3], [2,2,2])
GetModelArgs == <<(<<1, 16, 16, 10>>), (<<3, 3, 3>>), (<<2, 2, 2>>)>>

NetInit ==
  /\ \/ /\ actns \in SeqsUpTo(Channels, MaxLayers + 1)
        /\ kernel_szs \in SeqsUpTo(KernelSizes, MaxLayers)
        /\ strides \in SeqsUpTo(StrideSet, MaxLayers)
     \/ /\ actns = GetModelArgs[1]
        /\ kernel_szs = GetModelArgs[2]
        /\ strides = GetModelArgs[3]
  /\ model = NoModel
  /\ cell = None
  /\ acts = <<>>

InitNet == NetInit /\ FitIdle /\ TfmIdle /\ LdrIdle /\ BunchIdle

NextNet ==
  \/ call_simple_cnn
  \/ build_refactored
  \/ build_previous
  \/ \E bs \in 1..MaxBs : call_model(bs)

SpecNet == InitNet /\ [][NextNet]_vars

\* ------------------------------------------------------------------ C6
ConvsOf(m) == SelectSeq(Modules(m), LAMBDA l : l.kind = "Conv2d")

RECURSIVE ConvOut(_, _)
\* of the shapes a after the layers ls, those that a Conv2d puts out
ConvOut(ls, a) ==
  IF ls = <<>> THEN <<>>
  ELSE (IF Head(ls).kind = "Conv2d" THEN <<Head(a)>> ELSE <<>>) \o ConvOut(Tail(ls), Tail(a))

\* C6: the model built from the new helpers is the network of the previous
\* notebook: the same convolutions (3x3, stride 2, padding 1, with bias), the same
\* sizes after each convolution for a batch of 28x28 images, the same output
\* shape (batch, 10).
C6_SameNetwork ==
  cell = "refactored" =>
    /\ ConvsOf(model) = ConvsOf(PreviousModel)
    /\ acts # <<>> =>
         LET prev == Modules(PreviousModel)
             bs   == acts[1][1]
             was  == Shapes(prev, <<bs, 28 * 28>>)
         IN  /\ ConvOut(Modules(model), acts) = ConvOut(prev, was)
             /\ acts[Len(acts)] = was[Len(was)]
             /\ acts[Len(acts)] = <<bs, 10>>

\* ------------------------------------------------------------------ C10
\* the conv2d_relu block the claim describes
Block(ni, nf, ks, stride) ==
  Sequential(<<[kind |-> "Conv2d", ni |-> ni, nf |-> nf, kernel_size |-> ks,
                stride |-> stride, padding |-> ks \div 2, bias |-> FALSE],
               [kind |-> "ReLU"]>>)

\* C10 as claimed: simple_cnn returns exactly len(actns)-1 conv2d_relu blocks, block
\* i from actns[i] to actns[i+1] channels with kernel kernel_szs[i] and stride
\* strides[i], then one PoolFlatten.
C10_BlocksPerActns ==
  cell = "simple_cnn" /\ model.kind = "Sequential" /\ actns # <<>> =>
    /\ Len(model.layers) = Len(actns)
    /\ \A i \in 1..(Len(actns) - 1) :
         model.layers[i] = Block(actns[i], actns[i + 1], kernel_szs[i], strides[i])
    /\ model.layers[Len(model.layers)] = PoolFlatten

\* C10, amended: simple_cnn returns exactly len(strides) conv2d_relu blocks, block i
\* from actns[i] to actns[i+1] channels with kernel kernel_szs[i], stride strides[i],
\* padding kernel_szs[i]//2 and no bias, so each block's output channels are the
\* next block's input channels, then one PoolFlatten as the last layer; that is
\* len(actns)-1 blocks when len(strides) = len(actns)-1; it raises IndexError
\* when strides is not empty and is longer than kernel_szs or than len(actns)-1.
C10_BlocksPerStrides ==
  cell = "simple_cnn" =>
    IF Len(strides) > 0 /\ (Len(strides) > Len(actns) - 1 \/ Len(strides) > Len(kernel_szs))
      THEN model.kind = "IndexError"
      ELSE /\ model.kind = "Sequential"
           /\ Len(model.layers) = Len(strides) + 1
           /\ \A i \in 1..Len(strides) :
                model.layers[i] = Block(actns[i], actns[i + 1], kernel_szs[i], strides[i])
           /\ \A i \in 1..(Len(strides) - 1) :
                model.layers[i].layers[1].nf = model.layers[i + 1].layers[1].ni
           /\ model.layers[Len(strides) + 1] = PoolFlatten
           /\ \A i \in 1..Len(strides) : model.layers[i] # PoolFlatten
           /\ Len(strides) = Len(actns) - 1 => Len(model.layers) = Len(actns)

C10_Witness ==
  /\ cell = "simple_cnn" /\ <<actns, kernel_szs, strides>> = GetModelArgs
  /\ Len(model.layers) = 4 /\ acts # <<>> /\ acts[Len(acts)] = <<acts[1][1], 10>>
====
